---- MODULE Spec2Model ----
(***************************************************************************)
(* Verification model of colour_console (namespace cc): the attribute      *)
(* algebra (ConsoleTextAttr, ConsoleTextAttrChange, operator |), the named  *)
(* constant tables, the scoped-print helpers (Dye, Mark, Underline) and the *)
(* stream insertion operators that read and write the console's text       *)
(* attribute register.                                                     *)
(*                                                                         *)
(* An `unsigned int` is modelled as the set of the positions of its set    *)
(* bits (bit 0 = least significant, 32 bits wide), so that `&`, `|` and    *)
(* `~` are computed at the width the code computes them.                   *)
(***************************************************************************)
EXTENDS Integers, Sequences, FiniteSets, TLC

\* ------------------------------------------------------------------------
\* unsigned int
\* ------------------------------------------------------------------------

\* bit positions of an unsigned int
Bits == 0..31

\* the unsigned int whose numeral is n (n < 2^31)
Word(n) == {i \in 0..30 : (n \div (2^i)) % 2 = 1}

\* the unsigned int 0xFFFFFFFF
AllBits == Bits

\* a | b
BitOr(a, b) == a \cup b

\* a & b
BitAnd(a, b) == a \cap b

\* ~a
BitNot(a) == Bits \ a

\* ------------------------------------------------------------------------
\* console attribute bits of the host (wincon.h)
\* ------------------------------------------------------------------------

FOREGROUND_BLUE == {0}
FOREGROUND_GREEN == {1}
FOREGROUND_RED == {2}
FOREGROUND_INTENSITY == {3}
BACKGROUND_BLUE == {4}
BACKGROUND_GREEN == {5}
BACKGROUND_RED == {6}
BACKGROUND_INTENSITY == {7}
COMMON_LVB_GRID_HORIZONTAL == {10}
COMMON_LVB_GRID_LVERTICAL == {11}
COMMON_LVB_GRID_RVERTICAL == {12}
COMMON_LVB_REVERSE_VIDEO == {14}
COMMON_LVB_UNDERSCORE == {15}

\* ------------------------------------------------------------------------
\* value types and operator |
\* ------------------------------------------------------------------------

\* struct ConsoleTextAttr{ unsigned int value; }
ConsoleTextAttr(v) == [value |-> v]

\* struct ConsoleTextAttrChange{ unsigned int value; unsigned int mask; }
ConsoleTextAttrChange(v, m) == [value |-> v, mask |-> m]

\* struct ConsoleTextAttrChangePrint{ ConsoleTextAttrChange attributes; std::string_view string; }
ConsoleTextAttrChangePrint(a, s) == [attributes |-> a, string |-> s]

\* operator | (ConsoleTextAttr lhs, ConsoleTextAttr rhs) written with ^
combine_sets_xor(lhs, rhs) ==
    ConsoleTextAttr(BitOr(lhs.value, rhs.value) \ BitAnd(lhs.value, rhs.value))

\* operator | (ConsoleTextAttr lhs, ConsoleTextAttr rhs)
combine_sets(lhs, rhs) == ConsoleTextAttr(BitOr(lhs.value, rhs.value))

\* operator | on changes where the right operand wins inside its mask
combine_changes_later_wins(lhs, rhs) ==
    ConsoleTextAttrChange(BitOr(BitAnd(lhs.value, BitNot(rhs.mask)), rhs.value),
                          BitOr(lhs.mask, rhs.mask))

\* operator | on changes where the masks are combined with &
combine_changes_mask_and(lhs, rhs) ==
    ConsoleTextAttrChange(BitOr(lhs.value, rhs.value), BitAnd(lhs.mask, rhs.mask))

\* operator | on changes that keeps the left operand's mask
combine_changes_left_mask(lhs, rhs) ==
    ConsoleTextAttrChange(BitOr(lhs.value, rhs.value), lhs.mask)

\* operator | (ConsoleTextAttrChange lhs, ConsoleTextAttrChange rhs)
combine_changes(lhs, rhs) ==
    ConsoleTextAttrChange(BitOr(lhs.value, rhs.value), BitOr(lhs.mask, rhs.mask))

\* ------------------------------------------------------------------------
\* named constants
\* ------------------------------------------------------------------------

\* Text::mask
Text_mask ==
    FOREGROUND_INTENSITY \cup FOREGROUND_RED \cup FOREGROUND_BLUE \cup FOREGROUND_GREEN

\* namespace Text with the bits of purple given to aqua
Text_aqua_as_purple ==
    [black |-> ConsoleTextAttrChange({}, Text_mask),
     blue |-> ConsoleTextAttrChange(FOREGROUND_BLUE, Text_mask),
     green |-> ConsoleTextAttrChange(FOREGROUND_GREEN, Text_mask),
     aqua |-> ConsoleTextAttrChange(FOREGROUND_RED \cup FOREGROUND_BLUE, Text_mask),
     red |-> ConsoleTextAttrChange(FOREGROUND_RED, Text_mask),
     purple |-> ConsoleTextAttrChange(FOREGROUND_RED \cup FOREGROUND_BLUE, Text_mask),
     yellow |-> ConsoleTextAttrChange(FOREGROUND_RED \cup FOREGROUND_GREEN, Text_mask),
     white |-> ConsoleTextAttrChange(FOREGROUND_RED \cup FOREGROUND_BLUE \cup FOREGROUND_GREEN, Text_mask),
     grey |-> ConsoleTextAttrChange(FOREGROUND_INTENSITY, Text_mask),
     light_blue |-> ConsoleTextAttrChange(FOREGROUND_INTENSITY \cup FOREGROUND_BLUE, Text_mask),
     light_green |-> ConsoleTextAttrChange(FOREGROUND_INTENSITY \cup FOREGROUND_GREEN, Text_mask),
     light_aqua |-> ConsoleTextAttrChange(FOREGROUND_INTENSITY \cup FOREGROUND_BLUE \cup FOREGROUND_GREEN, Text_mask),
     light_red |-> ConsoleTextAttrChange(FOREGROUND_INTENSITY \cup FOREGROUND_RED, Text_mask),
     light_purple |-> ConsoleTextAttrChange(FOREGROUND_INTENSITY \cup FOREGROUND_RED \cup FOREGROUND_BLUE, Text_mask),
     light_yellow |-> ConsoleTextAttrChange(FOREGROUND_INTENSITY \cup FOREGROUND_RED \cup FOREGROUND_GREEN, Text_mask),
     bright_white |-> ConsoleTextAttrChange(FOREGROUND_INTENSITY \cup FOREGROUND_RED \cup FOREGROUND_BLUE \cup FOREGROUND_GREEN, Text_mask)]

\* namespace Text: partial changes of the foreground colour
Text ==
    [black |-> ConsoleTextAttrChange({}, Text_mask),
     blue |-> ConsoleTextAttrChange(FOREGROUND_BLUE, Text_mask),
     green |-> ConsoleTextAttrChange(FOREGROUND_GREEN, Text_mask),
     aqua |-> ConsoleTextAttrChange(FOREGROUND_BLUE \cup FOREGROUND_GREEN, Text_mask),
     red |-> ConsoleTextAttrChange(FOREGROUND_RED, Text_mask),
     purple |-> ConsoleTextAttrChange(FOREGROUND_RED \cup FOREGROUND_BLUE, Text_mask),
     yellow |-> ConsoleTextAttrChange(FOREGROUND_RED \cup FOREGROUND_GREEN, Text_mask),
     white |-> ConsoleTextAttrChange(FOREGROUND_RED \cup FOREGROUND_BLUE \cup FOREGROUND_GREEN, Text_mask),
     grey |-> ConsoleTextAttrChange(FOREGROUND_INTENSITY, Text_mask),
     light_blue |-> ConsoleTextAttrChange(FOREGROUND_INTENSITY \cup FOREGROUND_BLUE, Text_mask),
     light_green |-> ConsoleTextAttrChange(FOREGROUND_INTENSITY \cup FOREGROUND_GREEN, Text_mask),
     light_aqua |-> ConsoleTextAttrChange(FOREGROUND_INTENSITY \cup FOREGROUND_BLUE \cup FOREGROUND_GREEN, Text_mask),
     light_red |-> ConsoleTextAttrChange(FOREGROUND_INTENSITY \cup FOREGROUND_RED, Text_mask),
     light_purple |-> ConsoleTextAttrChange(FOREGROUND_INTENSITY \cup FOREGROUND_RED \cup FOREGROUND_BLUE, Text_mask),
     light_yellow |-> ConsoleTextAttrChange(FOREGROUND_INTENSITY \cup FOREGROUND_RED \cup FOREGROUND_GREEN, Text_mask),
     bright_white |-> ConsoleTextAttrChange(FOREGROUND_INTENSITY \cup FOREGROUND_RED \cup FOREGROUND_BLUE \cup FOREGROUND_GREEN, Text_mask)]
\* namespace TextSet with the bits of yellow given to purple
TextSet_purple_as_yellow ==
    [blue |-> ConsoleTextAttr(FOREGROUND_BLUE),
     green |-> ConsoleTextAttr(FOREGROUND_GREEN),
     aqua |-> ConsoleTextAttr(FOREGROUND_BLUE \cup FOREGROUND_GREEN),
     red |-> ConsoleTextAttr(FOREGROUND_RED),
     purple |-> ConsoleTextAttr(FOREGROUND_RED \cup FOREGROUND_GREEN),
     yellow |-> ConsoleTextAttr(FOREGROUND_RED \cup FOREGROUND_GREEN),
     white |-> ConsoleTextAttr(FOREGROUND_RED \cup FOREGROUND_BLUE \cup FOREGROUND_GREEN),
     grey |-> ConsoleTextAttr(FOREGROUND_INTENSITY),
     light_blue |-> ConsoleTextAttr(FOREGROUND_INTENSITY \cup FOREGROUND_BLUE),
     light_green |-> ConsoleTextAttr(FOREGROUND_INTENSITY \cup FOREGROUND_GREEN),
     light_aqua |-> ConsoleTextAttr(FOREGROUND_INTENSITY \cup FOREGROUND_BLUE \cup FOREGROUND_GREEN),
     light_red |-> ConsoleTextAttr(FOREGROUND_INTENSITY \cup FOREGROUND_RED),
     light_purple |-> ConsoleTextAttr(FOREGROUND_INTENSITY \cup FOREGROUND_RED \cup FOREGROUND_BLUE),
     light_yellow |-> ConsoleTextAttr(FOREGROUND_INTENSITY \cup FOREGROUND_RED \cup FOREGROUND_GREEN),
     bright_white |-> ConsoleTextAttr(FOREGROUND_INTENSITY \cup FOREGROUND_RED \cup FOREGROUND_BLUE \cup FOREGROUND_GREEN)]

\* namespace TextSet: absolute sets of the foreground colour (no black)
TextSet ==
    [blue |-> ConsoleTextAttr(FOREGROUND_BLUE),
     green |-> ConsoleTextAttr(FOREGROUND_GREEN),
     aqua |-> ConsoleTextAttr(FOREGROUND_BLUE \cup FOREGROUND_GREEN),
     red |-> ConsoleTextAttr(FOREGROUND_RED),
     purple |-> ConsoleTextAttr(FOREGROUND_RED \cup FOREGROUND_BLUE),
     yellow |-> ConsoleTextAttr(FOREGROUND_RED \cup FOREGROUND_GREEN),
     white |-> ConsoleTextAttr(FOREGROUND_RED \cup FOREGROUND_BLUE \cup FOREGROUND_GREEN),
     grey |-> ConsoleTextAttr(FOREGROUND_INTENSITY),
     light_blue |-> ConsoleTextAttr(FOREGROUND_INTENSITY \cup FOREGROUND_BLUE),
     light_green |-> ConsoleTextAttr(FOREGROUND_INTENSITY \cup FOREGROUND_GREEN),
     light_aqua |-> ConsoleTextAttr(FOREGROUND_INTENSITY \cup FOREGROUND_BLUE \cup FOREGROUND_GREEN),
     light_red |-> ConsoleTextAttr(FOREGROUND_INTENSITY \cup FOREGROUND_RED),
     light_purple |-> ConsoleTextAttr(FOREGROUND_INTENSITY \cup FOREGROUND_RED \cup FOREGROUND_BLUE),
     light_yellow |-> ConsoleTextAttr(FOREGROUND_INTENSITY \cup FOREGROUND_RED \cup FOREGROUND_GREEN),
     bright_white |-> ConsoleTextAttr(FOREGROUND_INTENSITY \cup FOREGROUND_RED \cup FOREGROUND_BLUE \cup FOREGROUND_GREEN)]
\* Background::mask
Background_mask ==
    BACKGROUND_INTENSITY \cup BACKGROUND_RED \cup BACKGROUND_BLUE \cup BACKGROUND_GREEN

\* namespace Background: partial changes of the background colour
Background ==
    [black |-> ConsoleTextAttrChange({}, Background_mask),
     blue |-> ConsoleTextAttrChange(BACKGROUND_BLUE, Background_mask),
     green |-> ConsoleTextAttrChange(BACKGROUND_GREEN, Background_mask),
     aqua |-> ConsoleTextAttrChange(BACKGROUND_BLUE \cup BACKGROUND_GREEN, Background_mask),
     red |-> ConsoleTextAttrChange(BACKGROUND_RED, Background_mask),
     purple |-> ConsoleTextAttrChange(BACKGROUND_RED \cup BACKGROUND_BLUE, Background_mask),
     yellow |-> ConsoleTextAttrChange(BACKGROUND_RED \cup BACKGROUND_GREEN, Background_mask),
     white |-> ConsoleTextAttrChange(BACKGROUND_RED \cup BACKGROUND_BLUE \cup BACKGROUND_GREEN, Background_mask),
     grey |-> ConsoleTextAttrChange(BACKGROUND_INTENSITY, Background_mask),
     light_blue |-> ConsoleTextAttrChange(BACKGROUND_INTENSITY \cup BACKGROUND_BLUE, Background_mask),
     light_green |-> ConsoleTextAttrChange(BACKGROUND_INTENSITY \cup BACKGROUND_GREEN, Background_mask),
     light_aqua |-> ConsoleTextAttrChange(BACKGROUND_INTENSITY \cup BACKGROUND_BLUE \cup BACKGROUND_GREEN, Background_mask),
     light_red |-> ConsoleTextAttrChange(BACKGROUND_INTENSITY \cup BACKGROUND_RED, Background_mask),
     light_purple |-> ConsoleTextAttrChange(BACKGROUND_INTENSITY \cup BACKGROUND_RED \cup BACKGROUND_BLUE, Background_mask),
     light_yellow |-> ConsoleTextAttrChange(BACKGROUND_INTENSITY \cup BACKGROUND_RED \cup BACKGROUND_GREEN, Background_mask),
     bright_white |-> ConsoleTextAttrChange(BACKGROUND_INTENSITY \cup BACKGROUND_RED \cup BACKGROUND_BLUE \cup BACKGROUND_GREEN, Background_mask)]
\* namespace BackgroundSet: absolute sets of the background colour (no black)
BackgroundSet ==
    [blue |-> ConsoleTextAttr(BACKGROUND_BLUE),
     green |-> ConsoleTextAttr(BACKGROUND_GREEN),
     aqua |-> ConsoleTextAttr(BACKGROUND_BLUE \cup BACKGROUND_GREEN),
     red |-> ConsoleTextAttr(BACKGROUND_RED),
     purple |-> ConsoleTextAttr(BACKGROUND_RED \cup BACKGROUND_BLUE),
     yellow |-> ConsoleTextAttr(BACKGROUND_RED \cup BACKGROUND_GREEN),
     white |-> ConsoleTextAttr(BACKGROUND_RED \cup BACKGROUND_BLUE \cup BACKGROUND_GREEN),
     grey |-> ConsoleTextAttr(BACKGROUND_INTENSITY),
     light_blue |-> ConsoleTextAttr(BACKGROUND_INTENSITY \cup BACKGROUND_BLUE),
     light_green |-> ConsoleTextAttr(BACKGROUND_INTENSITY \cup BACKGROUND_GREEN),
     light_aqua |-> ConsoleTextAttr(BACKGROUND_INTENSITY \cup BACKGROUND_BLUE \cup BACKGROUND_GREEN),
     light_red |-> ConsoleTextAttr(BACKGROUND_INTENSITY \cup BACKGROUND_RED),
     light_purple |-> ConsoleTextAttr(BACKGROUND_INTENSITY \cup BACKGROUND_RED \cup BACKGROUND_BLUE),
     light_yellow |-> ConsoleTextAttr(BACKGROUND_INTENSITY \cup BACKGROUND_RED \cup BACKGROUND_GREEN),
     bright_white |-> ConsoleTextAttr(BACKGROUND_INTENSITY \cup BACKGROUND_RED \cup BACKGROUND_BLUE \cup BACKGROUND_GREEN)]
\* the four bar bits together
Bar_all_bits ==
    COMMON_LVB_GRID_HORIZONTAL \cup COMMON_LVB_UNDERSCORE
        \cup COMMON_LVB_GRID_LVERTICAL \cup COMMON_LVB_GRID_RVERTICAL

\* namespace Bar where the mask of top also covers the underscore bit
Bar_top_clears_underscore ==
    [top |-> ConsoleTextAttrChange(COMMON_LVB_GRID_HORIZONTAL,
                                   COMMON_LVB_GRID_HORIZONTAL \cup COMMON_LVB_UNDERSCORE),
     top_off |-> ConsoleTextAttrChange({}, COMMON_LVB_GRID_HORIZONTAL),
     bottom |-> ConsoleTextAttrChange(COMMON_LVB_UNDERSCORE, COMMON_LVB_UNDERSCORE),
     bottom_off |-> ConsoleTextAttrChange({}, COMMON_LVB_UNDERSCORE),
     left |-> ConsoleTextAttrChange(COMMON_LVB_GRID_LVERTICAL, COMMON_LVB_GRID_LVERTICAL),
     left_off |-> ConsoleTextAttrChange({}, COMMON_LVB_GRID_LVERTICAL),
     right |-> ConsoleTextAttrChange(COMMON_LVB_GRID_RVERTICAL, COMMON_LVB_GRID_RVERTICAL),
     right_off |-> ConsoleTextAttrChange({}, COMMON_LVB_GRID_RVERTICAL),
     all |-> ConsoleTextAttrChange(Bar_all_bits, Bar_all_bits),
     all_off |-> ConsoleTextAttrChange({}, Bar_all_bits)]

\* namespace Bar: partial changes of the bars around a symbol
Bar ==
    [top |-> ConsoleTextAttrChange(COMMON_LVB_GRID_HORIZONTAL, COMMON_LVB_GRID_HORIZONTAL),
     top_off |-> ConsoleTextAttrChange({}, COMMON_LVB_GRID_HORIZONTAL),
     bottom |-> ConsoleTextAttrChange(COMMON_LVB_UNDERSCORE, COMMON_LVB_UNDERSCORE),
     bottom_off |-> ConsoleTextAttrChange({}, COMMON_LVB_UNDERSCORE),
     left |-> ConsoleTextAttrChange(COMMON_LVB_GRID_LVERTICAL, COMMON_LVB_GRID_LVERTICAL),
     left_off |-> ConsoleTextAttrChange({}, COMMON_LVB_GRID_LVERTICAL),
     right |-> ConsoleTextAttrChange(COMMON_LVB_GRID_RVERTICAL, COMMON_LVB_GRID_RVERTICAL),
     right_off |-> ConsoleTextAttrChange({}, COMMON_LVB_GRID_RVERTICAL),
     all |-> ConsoleTextAttrChange(Bar_all_bits, Bar_all_bits),
     all_off |-> ConsoleTextAttrChange({}, Bar_all_bits)]

\* namespace BarSet: absolute sets of the bars
BarSet ==
    [top |-> ConsoleTextAttr(COMMON_LVB_GRID_HORIZONTAL),
     bottom |-> ConsoleTextAttr(COMMON_LVB_UNDERSCORE),
     left |-> ConsoleTextAttr(COMMON_LVB_GRID_LVERTICAL),
     right |-> ConsoleTextAttr(COMMON_LVB_GRID_RVERTICAL),
     all |-> ConsoleTextAttr(Bar_all_bits)]

\* namespace Invert: partial changes of the reverse-video bit
Invert ==
    [on |-> ConsoleTextAttrChange(COMMON_LVB_REVERSE_VIDEO, COMMON_LVB_REVERSE_VIDEO),
     off |-> ConsoleTextAttrChange({}, COMMON_LVB_REVERSE_VIDEO)]

\* namespace Preset with Default = TextSet::bright_white
Preset_bright_default ==
    [Default |-> TextSet.bright_white,
     link |-> combine_sets(TextSet.blue, BarSet.bottom),
     active_link |-> combine_sets(TextSet.purple, BarSet.bottom)]

\* namespace Preset with the links built from BarSet::top
Preset_top_links ==
    [Default |-> TextSet.white,
     link |-> combine_sets(TextSet.blue, BarSet.top),
     active_link |-> combine_sets(TextSet.purple, BarSet.top)]

\* namespace Preset
Preset ==
    [Default |-> TextSet.white,
     link |-> combine_sets(TextSet.blue, BarSet.bottom),
     active_link |-> combine_sets(TextSet.purple, BarSet.bottom)]

\* the colour names of namespace Text (and of Background, Dye, Mark)
Colours == DOMAIN Text

\* every named partial change of Text::, Background::, Bar:: and Invert::
NamedChanges ==
    {Text[c] : c \in Colours} \cup {Background[c] : c \in Colours}
        \cup {Bar[b] : b \in DOMAIN Bar} \cup {Invert[i] : i \in DOMAIN Invert}

\* ------------------------------------------------------------------------
\* scoped-print helpers
\* ------------------------------------------------------------------------

\* Dye::<colour>(std::string_view string)
Dye_string(colour, string) == ConsoleTextAttrChangePrint(Text[colour], string)

\* Dye::<colour>(ConsoleTextAttrChangePrint formatedString)
Dye_print(colour, formatedString) ==
    ConsoleTextAttrChangePrint(combine_changes(Text[colour], formatedString.attributes),
                               formatedString.string)

\* Mark::<colour>(std::string_view string)
Mark_string(colour, string) == ConsoleTextAttrChangePrint(Background[colour], string)

\* Mark::<colour>(formatedString) that drops the change of formatedString
Mark_print_own_change(colour, formatedString) ==
    ConsoleTextAttrChangePrint(Background[colour], formatedString.string)

\* Mark::<colour>(ConsoleTextAttrChangePrint formatedString)
Mark_print(colour, formatedString) ==
    ConsoleTextAttrChangePrint(combine_changes(Background[colour], formatedString.attributes),
                               formatedString.string)

\* Underline(std::string_view string)
Underline_string(string) == ConsoleTextAttrChangePrint(Bar.bottom, string)

\* Underline(ConsoleTextAttrChangePrint formatedString)
Underline_print(formatedString) ==
    ConsoleTextAttrChangePrint(combine_changes(Bar.bottom, formatedString.attributes),
                               formatedString.string)

\* the scoped-print helpers: Dye::c and Mark::c for every colour c, and Underline
Helpers ==
    {<<"Dye", c>> : c \in Colours} \cup {<<"Mark", c>> : c \in Colours}
        \cup {<<"Underline", "">>}

\* the change a helper applies on its own
HelperChange(h) ==
    CASE h[1] = "Dye" -> Text[h[2]]
      [] h[1] = "Mark" -> Background[h[2]]
      [] h[1] = "Underline" -> Bar.bottom

\* the call h(string), resolved to the std::string_view overload
CallString(h, string) ==
    CASE h[1] = "Dye" -> Dye_string(h[2], string)
      [] h[1] = "Mark" -> Mark_string(h[2], string)
      [] h[1] = "Underline" -> Underline_string(string)

\* the call h(formatedString), resolved to the ConsoleTextAttrChangePrint overload
CallPrint(h, formatedString) ==
    CASE h[1] = "Dye" -> Dye_print(h[2], formatedString)
      [] h[1] = "Mark" -> Mark_print(h[2], formatedString)
      [] h[1] = "Underline" -> Underline_print(formatedString)

\* ------------------------------------------------------------------------
\* the console host and the stream, as seen by the callers
\* ------------------------------------------------------------------------

\* longest recorded stream content, in pieces of text
MaxOut == 2

\* the threads that may write to the console; Main is the single caller
Callers == {"main", "other"}
Main == "main"

\* text spans handed to the stream
Texts == {"X", "dyed"}

VARIABLES
    reg,        \* the console's text attribute register (wAttributes of the host)
    out,        \* the pieces of text the stream has received, in order
    pc,         \* pc[t]: where caller t stands inside its stream insertion
    op,         \* op[t]: the stream insertion caller t is in, or has last completed
    attributes, \* attributes[t]: local `attributes` of change_text_attributes
    saved,      \* saved[t]: local `attributes` of operator<<(ConsoleTextAttrChangePrint)
    prior,      \* prior[t]: the register when op[t] began
    log,        \* log[t]: host calls and stream writes of op[t], in order
    base,       \* the register after the last absolute set or partial change
    alg,        \* the last evaluation of operator | or of a scoped-print helper
    acc,        \* a change or scoped-print value being composed
    chain       \* the register a chain of `<<` began with and the changes applied since

console_vars == <<reg, out, pc, op, attributes, saved, prior, log, base, chain>>
vars == <<reg, out, pc, op, attributes, saved, prior, log, base, alg, acc, chain>>

\* get_text_attributes(): the current register, as a ConsoleTextAttr
get_text_attributes(console) == ConsoleTextAttr(console)

\* set_text_attributes that adds the bits to the ones the console holds
set_text_attributes_or(attr) == BitOr(reg, attr.value)

\* set_text_attributes(attributes): the register after the call; the values
\* written are attribute words of the host (all named constants are)
set_text_attributes(attr) == attr.value

\* change_text_attributes without `& attr.mask` on the value
change_text_attributes_value_unmasked(current, attr) ==
    LET cleared == ConsoleTextAttr(BitAnd(current.value, BitNot(attr.mask)))
    IN  ConsoleTextAttr(BitOr(cleared.value, attr.value))

\* change_text_attributes without `~` on the mask
change_text_attributes_value_keep_mask(current, attr) ==
    LET cleared == ConsoleTextAttr(BitAnd(current.value, attr.mask))
    IN  ConsoleTextAttr(BitOr(cleared.value, BitAnd(attr.value, attr.mask)))

\* change_text_attributes that toggles the masked value bits with `^=`
change_text_attributes_value_toggle(current, attr) ==
    LET flipped == BitAnd(attr.value, attr.mask)
    IN  ConsoleTextAttr((current.value \ flipped) \cup (flipped \ current.value))

\* the two assignments of change_text_attributes to its local `attributes`
change_text_attributes_value(current, attr) ==
    LET cleared == ConsoleTextAttr(BitAnd(current.value, BitNot(attr.mask)))
    IN  ConsoleTextAttr(BitOr(cleared.value, BitAnd(attr.value, attr.mask)))

\* the operands of `stream << attr.attributes << attr.string << attributes` are
\* inserted from left to right: the step that follows each step of the scoped-print
AfterInPrint_text_first(step) ==
    CASE step = "capture" -> "print_string"
      [] step = "print_string" -> "print_change"
      [] step = "print_change" -> "print_restore"
      [] step = "print_restore" -> "idle"

AfterInPrint(step) ==
    CASE step = "capture" -> "print_change"
      [] step = "print_change" -> "print_string"
      [] step = "print_string" -> "print_restore"
      [] step = "print_restore" -> "idle"

NoAttr == ConsoleTextAttr({})
NoChange == ConsoleTextAttrChange({}, {})
NoPrint == ConsoleTextAttrChangePrint(NoChange, "")
NoExpr == [helper |-> <<"none", "">>, inner |-> NoPrint, string |-> ""]
NoOp == [kind |-> "none", set |-> NoAttr, change |-> NoChange, string |-> "", expr |-> NoExpr]

GetEvent(v) == [call |-> "get", val |-> v, str |-> ""]
SetEvent(v) == [call |-> "set", val |-> v, str |-> ""]
TextEvent(v, s) == [call |-> "text", val |-> v, str |-> s]

\* registers the console may hold when the program starts
Priors == {Word(7), Word(112), Word(116), Word(0), Word(50311)}

\* absolute sets written by the callers
SetInputs ==
    {Preset.Default, Preset.link, Preset.active_link, TextSet.red,
     combine_sets(TextSet.yellow, BackgroundSet.blue), BarSet.all, ConsoleTextAttr({})}

\* partial changes written by the callers
ChangeInputs ==
    {Text.red, Text.blue, combine_changes(Text.red, Text.blue),
     Background.white, Background.light_blue, Bar.bottom, Bar.bottom_off, Invert.on,
     combine_changes(combine_changes(Text.blue, Background.white), Bar.bottom),
     ConsoleTextAttrChange(Word(1), Word(15)),
     ConsoleTextAttrChange(Word(8), Word(15)),
     ConsoleTextAttrChange(Word(255), Word(15)),
     ConsoleTextAttrChange(Word(165), Word(0)),
     ConsoleTextAttrChange(Word(165), AllBits)}

\* scoped-print expressions written by the callers: a helper applied to a text
\* span or to an already-built scoped-print value, or an aggregate built directly
PrintInputs ==
    {[helper |-> <<"Dye", "yellow">>, inner |-> NoPrint, string |-> "dyed"],
     [helper |-> <<"Mark", "green">>, inner |-> NoPrint, string |-> "X"],
     [helper |-> <<"Underline", "">>, inner |-> NoPrint, string |-> "X"],
     [helper |-> <<"Mark", "green">>, inner |-> Dye_string("yellow", "dyed"), string |-> ""],
     [helper |-> <<"Dye", "black">>,
      inner |-> Mark_print("yellow", Underline_string("X")), string |-> ""],
     [helper |-> <<"Dye", "red">>, inner |-> Dye_string("blue", "X"), string |-> ""],
     [helper |-> <<"Underline", "">>, inner |-> Mark_string("grey", "dyed"), string |-> ""],
     [helper |-> <<"aggregate", "">>,
      inner |-> ConsoleTextAttrChangePrint(ConsoleTextAttrChange(Word(255), Word(15)), "X"),
      string |-> ""]}

\* the scoped-print value a scoped-print expression evaluates to
Build(e) ==
    IF e.helper[1] = "aggregate" THEN e.inner
    ELSE IF e.inner = NoPrint THEN CallString(e.helper, e.string)
    ELSE CallPrint(e.helper, e.inner)

Init ==
    /\ reg \in Priors
    /\ out = <<>>
    /\ pc = [t \in Callers |-> "idle"]
    /\ op = [t \in Callers |-> NoOp]
    /\ attributes = [t \in Callers |-> NoAttr]
    /\ saved = [t \in Callers |-> NoAttr]
    /\ prior = [t \in Callers |-> reg]
    /\ log = [t \in Callers |-> <<>>]
    /\ base = reg
    /\ alg = [op |-> "none"]
    /\ acc = [kind |-> "none"]
    /\ chain = [from |-> reg, changes |-> <<>>]

\* stream << ConsoleTextAttr that also inserts attr.value into the stream
InsertSet_echo(t, attr) ==
    /\ pc[t] = "idle"
    /\ op' = [op EXCEPT ![t] = [NoOp EXCEPT !.kind = "set", !.set = attr]]
    /\ prior' = [prior EXCEPT ![t] = reg]
    /\ reg' = set_text_attributes(attr)
    /\ out' = Append(out, "value")
    /\ log' = [log EXCEPT ![t] = <<SetEvent(reg')>>]
    /\ base' = reg'
    /\ UNCHANGED <<pc, attributes, saved, alg, acc>>

\* stream << ConsoleTextAttr: set_text_attributes(attr)
InsertSet(t, attr) ==
    /\ pc[t] = "idle"
    /\ op' = [op EXCEPT ![t] = [NoOp EXCEPT !.kind = "set", !.set = attr]]
    /\ prior' = [prior EXCEPT ![t] = reg]
    /\ reg' = set_text_attributes(attr)
    /\ log' = [log EXCEPT ![t] = <<SetEvent(reg')>>]
    /\ base' = reg'
    /\ UNCHANGED <<out, pc, attributes, saved, alg, acc>>

\* stream << ConsoleTextAttrChange: change_text_attributes(attr) up to its read
\* of the console
InsertChange(t, attr) ==
    /\ pc[t] = "idle"
    /\ op' = [op EXCEPT ![t] = [NoOp EXCEPT !.kind = "change", !.change = attr]]
    /\ prior' = [prior EXCEPT ![t] = reg]
    /\ attributes' = [attributes EXCEPT ![t] = get_text_attributes(reg)]
    /\ log' = [log EXCEPT ![t] = <<GetEvent(reg)>>]
    /\ pc' = [pc EXCEPT ![t] = "change_set"]
    /\ UNCHANGED <<reg, out, saved, base, alg, acc>>

\* change_text_attributes that reads the console again when it writes
ChangeSet_reread(t) ==
    /\ pc[t] \in {"change_set", "print_change_set"}
    /\ reg' = set_text_attributes(
                 change_text_attributes_value(get_text_attributes(reg), op[t].change))
    /\ log' = [log EXCEPT ![t] = Append(@, SetEvent(reg'))]
    /\ attributes' = [attributes EXCEPT ![t] = NoAttr]
    /\ pc' = [pc EXCEPT ![t] = IF pc[t] = "change_set" THEN "idle"
                                ELSE AfterInPrint("print_change")]
    /\ base' = IF pc[t] = "change_set" THEN reg' ELSE base
    /\ UNCHANGED <<out, op, saved, prior, alg, acc>>

\* change_text_attributes from its modification of the local to its write of
\* the console, called by operator<<(ConsoleTextAttrChange) directly or inside
\* a scoped-print
ChangeSet(t) ==
    /\ pc[t] \in {"change_set", "print_change_set"}
    /\ reg' = set_text_attributes(
                 change_text_attributes_value(attributes[t], op[t].change))
    /\ log' = [log EXCEPT ![t] = Append(@, SetEvent(reg'))]
    /\ attributes' = [attributes EXCEPT ![t] = NoAttr]
    /\ pc' = [pc EXCEPT ![t] = IF pc[t] = "change_set" THEN "idle"
                                ELSE AfterInPrint("print_change")]
    /\ base' = IF pc[t] = "change_set" THEN reg' ELSE base
    /\ UNCHANGED <<out, op, saved, prior, alg, acc>>

\* stream << text
InsertText(t, s) ==
    /\ pc[t] = "idle"
    /\ Len(out) < MaxOut
    /\ op' = [op EXCEPT ![t] = [NoOp EXCEPT !.kind = "text", !.string = s]]
    /\ prior' = [prior EXCEPT ![t] = reg]
    /\ out' = Append(out, s)
    /\ log' = [log EXCEPT ![t] = <<TextEvent(reg, s)>>]
    /\ UNCHANGED <<reg, pc, attributes, saved, base, alg, acc>>

\* stream << ConsoleTextAttrChangePrint: the argument expression e is evaluated,
\* then auto attributes = get_text_attributes()
InsertPrint(t, e) ==
    /\ pc[t] = "idle"
    /\ Len(out) < MaxOut
    /\ op' = [op EXCEPT ![t] = [NoOp EXCEPT !.kind = "print",
                                            !.change = Build(e).attributes,
                                            !.string = Build(e).string,
                                            !.expr = e]]
    /\ prior' = [prior EXCEPT ![t] = reg]
    /\ saved' = [saved EXCEPT ![t] = get_text_attributes(reg)]
    /\ log' = [log EXCEPT ![t] = <<GetEvent(reg)>>]
    /\ pc' = [pc EXCEPT ![t] = AfterInPrint("capture")]
    /\ UNCHANGED <<reg, out, attributes, base, alg, acc>>

\* stream << attr.attributes inside the scoped-print: change_text_attributes
\* up to its read of the console
PrintChange(t) ==
    /\ pc[t] = "print_change"
    /\ attributes' = [attributes EXCEPT ![t] = get_text_attributes(reg)]
    /\ log' = [log EXCEPT ![t] = Append(@, GetEvent(reg))]
    /\ pc' = [pc EXCEPT ![t] = "print_change_set"]
    /\ UNCHANGED <<reg, out, op, saved, prior, base, alg, acc>>

\* << attr.string inside the scoped-print
PrintString(t) ==
    /\ pc[t] = "print_string"
    /\ out' = Append(out, op[t].string)
    /\ log' = [log EXCEPT ![t] = Append(@, TextEvent(reg, op[t].string))]
    /\ pc' = [pc EXCEPT ![t] = AfterInPrint("print_string")]
    /\ UNCHANGED <<reg, op, attributes, saved, prior, base, alg, acc>>

\* a scoped-print that ends on Preset::Default instead of the captured state
PrintRestore_default(t) ==
    /\ pc[t] = "print_restore"
    /\ reg' = set_text_attributes(Preset.Default)
    /\ log' = [log EXCEPT ![t] = Append(@, SetEvent(reg'))]
    /\ saved' = [saved EXCEPT ![t] = NoAttr]
    /\ pc' = [pc EXCEPT ![t] = AfterInPrint("print_restore")]
    /\ UNCHANGED <<out, op, attributes, prior, base, alg, acc>>

\* << attributes inside the scoped-print: set_text_attributes(attributes)
PrintRestore(t) ==
    /\ pc[t] = "print_restore"
    /\ reg' = set_text_attributes(saved[t])
    /\ log' = [log EXCEPT ![t] = Append(@, SetEvent(reg'))]
    /\ saved' = [saved EXCEPT ![t] = NoAttr]
    /\ pc' = [pc EXCEPT ![t] = AfterInPrint("print_restore")]
    /\ UNCHANGED <<out, op, attributes, prior, base, alg, acc>>

\* one step of caller t
Step(t) ==
    /\ \/ \E attr \in SetInputs : InsertSet(t, attr)
       \/ \E attr \in ChangeInputs : InsertChange(t, attr)
       \/ ChangeSet(t)
       \/ \E s \in Texts : InsertText(t, s)
       \/ \E e \in PrintInputs : InsertPrint(t, e)
       \/ PrintChange(t)
       \/ PrintString(t)
       \/ PrintRestore(t)
    /\ UNCHANGED chain

\* a single caller writes to the console
Next == Step(Main)

Spec == Init /\ [][Next]_vars

\* ------------------------------------------------------------------------
\* evaluations of operator | on drawn operands
\* ------------------------------------------------------------------------

\* operands of operator | (ConsoleTextAttr, ConsoleTextAttr)
SetOperands ==
    {TextSet.blue, TextSet.red, TextSet.light_yellow, BackgroundSet.white, BarSet.bottom,
     Preset.link, ConsoleTextAttr({}), ConsoleTextAttr(Word(50311)), ConsoleTextAttr(AllBits)}

\* operands of operator | (ConsoleTextAttrChange, ConsoleTextAttrChange)
ChangeOperands ==
    {Text.red, Text.blue, Text.black, Background.green, Bar.bottom, Bar.bottom_off,
     Invert.on, ConsoleTextAttrChange({}, {}),
     ConsoleTextAttrChange(Word(255), Word(15)),
     ConsoleTextAttrChange(Word(165), AllBits)}

\* the console before any caller has written to it
ConsoleInit ==
    /\ reg = Word(7)
    /\ out = <<>>
    /\ pc = [t \in Callers |-> "idle"]
    /\ op = [t \in Callers |-> NoOp]
    /\ attributes = [t \in Callers |-> NoAttr]
    /\ saved = [t \in Callers |-> NoAttr]
    /\ prior = [t \in Callers |-> reg]
    /\ log = [t \in Callers |-> <<>>]
    /\ base = reg
    /\ chain = [from |-> reg, changes |-> <<>>]

\* three operands of one of the two operators are drawn
InitAlgebra ==
    /\ ConsoleInit
    /\ \/ \E a, b, c \in SetOperands :
             alg = [op |-> "sets", a |-> a, b |-> b, c |-> c]
       \/ \E a, b, c \in ChangeOperands :
             alg = [op |-> "changes", a |-> a, b |-> b, c |-> c]
    /\ acc = [kind |-> "none"]

\* a | b, b | a, (a | b) | c, a | (b | c) and a | a for absolute sets a, b, c
EvalSets ==
    /\ alg.op = "sets"
    /\ alg' = [op |-> "combine_sets", a |-> alg.a, b |-> alg.b, c |-> alg.c,
               ab |-> combine_sets(alg.a, alg.b),
               ba |-> combine_sets(alg.b, alg.a),
               ab_c |-> combine_sets(combine_sets(alg.a, alg.b), alg.c),
               a_bc |-> combine_sets(alg.a, combine_sets(alg.b, alg.c)),
               aa |-> combine_sets(alg.a, alg.a)]
    /\ UNCHANGED <<console_vars, acc>>

\* the same expressions for partial changes a, b, c
EvalChanges ==
    /\ alg.op = "changes"
    /\ alg' = [op |-> "combine_changes", a |-> alg.a, b |-> alg.b, c |-> alg.c,
               ab |-> combine_changes(alg.a, alg.b),
               ba |-> combine_changes(alg.b, alg.a),
               ab_c |-> combine_changes(combine_changes(alg.a, alg.b), alg.c),
               a_bc |-> combine_changes(alg.a, combine_changes(alg.b, alg.c)),
               aa |-> combine_changes(alg.a, alg.a)]
    /\ UNCHANGED <<console_vars, acc>>

NextAlgebra == EvalSets \/ EvalChanges

SpecAlgebra == InitAlgebra /\ [][NextAlgebra]_vars

\* ------------------------------------------------------------------------
\* composition of the named constants
\* ------------------------------------------------------------------------

\* a named partial change, as the start of an expression
NameChange(x) ==
    /\ acc.kind = "none"
    /\ acc' = [kind |-> "change", attributes |-> x, string |-> ""]
    /\ UNCHANGED <<console_vars, alg>>

\* acc | x
OrRight(x) ==
    /\ acc.kind = "change"
    /\ acc' = [acc EXCEPT !.attributes = combine_changes(acc.attributes, x)]
    /\ UNCHANGED <<console_vars, alg>>

\* h(string), as the start of an expression
HelperString(h, s) ==
    /\ acc.kind = "none"
    /\ acc' = [kind |-> "print", attributes |-> CallString(h, s).attributes,
               string |-> CallString(h, s).string]
    /\ UNCHANGED <<console_vars, alg>>

\* h(acc), for an already-built scoped-print value acc
HelperPrint(h) ==
    /\ acc.kind = "print"
    /\ acc' = [kind |-> "print",
               attributes |-> CallPrint(h, ConsoleTextAttrChangePrint(acc.attributes, acc.string)).attributes,
               string |-> CallPrint(h, ConsoleTextAttrChangePrint(acc.attributes, acc.string)).string]
    /\ UNCHANGED <<console_vars, alg>>

NextCompose ==
    \/ \E x \in NamedChanges : NameChange(x)
    \/ \E x \in NamedChanges : OrRight(x)
    \/ \E h \in Helpers, s \in Texts : HelperString(h, s)
    \/ \E h \in Helpers : HelperPrint(h)

InitCompose ==
    /\ ConsoleInit
    /\ alg = [op |-> "none"]
    /\ acc = [kind |-> "none"]

SpecCompose == InitCompose /\ [][NextCompose]_vars

\* ------------------------------------------------------------------------
\* properties
\* ------------------------------------------------------------------------

\* the caller has completed a stream insertion of the given kind
Completed(kind) == pc[Main] = "idle" /\ op[Main].kind = kind

\* bit i of the register a partial change {v, m} must leave from prior P
ExpectedBit(i, P, v, m) == IF i \in m THEN i \in v ELSE i \in P

\* C1: after change_text_attributes({v, m}) completes with a single caller, the
\* console register equals (P & ~m) | (v & m) for the register P it started
\* from: every bit inside m is the bit of v, every other bit is the bit of P;
\* P = 0x0007 with {0x0001, 0x000F} gives 0x0001.
C1_ApplyChangeResult ==
    Completed("change") =>
        /\ \A i \in Bits :
              (i \in reg) <=> ExpectedBit(i, prior[Main], op[Main].change.value,
                                          op[Main].change.mask)
        /\ (prior[Main] = Word(7)
              /\ op[Main].change = ConsoleTextAttrChange(Word(1), Word(15)))
           => reg = Word(1)

C1_Witness ==
    /\ Completed("change")
    /\ prior[Main] = Word(7)
    /\ op[Main].change = ConsoleTextAttrChange(Word(1), Word(15))
    /\ reg = Word(1)
    /\ Len(log[Main]) = 2

\* C2: a partial change leaves every register bit outside its mask unchanged,
\* (register & ~m) = (P & ~m); a Background:: colour leaves the foreground
\* nibble, the bar bits and the reverse-video bit as they were; prior 0x0074
\* with {0x0008, 0x000F} gives 0x0078.
C2_OutsideMaskUnchanged ==
    Completed("change") =>
        /\ BitAnd(reg, BitNot(op[Main].change.mask))
              = BitAnd(prior[Main], BitNot(op[Main].change.mask))
        /\ op[Main].change \in {Background[c] : c \in Colours} =>
              \A i \in Text_mask \cup Bar_all_bits \cup COMMON_LVB_REVERSE_VIDEO :
                  (i \in reg) <=> (i \in prior[Main])
        /\ (prior[Main] = Word(116)
              /\ op[Main].change = ConsoleTextAttrChange(Word(8), Word(15)))
           => reg = Word(120)

C2_Witness ==
    /\ Completed("change")
    /\ op[Main].change = Background.white
    /\ BitAnd(prior[Main], Text_mask) # {}
    /\ BitAnd(prior[Main], Bar_all_bits) # {}
    /\ BitAnd(prior[Main], COMMON_LVB_REVERSE_VIDEO) # {}
    /\ reg # prior[Main]

\* C3: writing an absolute set a replaces the whole register: whatever the
\* register held, it equals a.value afterwards, so every bit not set in a is
\* zero, and a set written after another set leaves its own value, not the OR
\* of the two.
C3_SetReplacesRegister ==
    Completed("set") =>
        /\ reg = op[Main].set.value
        /\ \A i \in Bits : i \notin op[Main].set.value => i \notin reg
        /\ ~(prior[Main] \subseteq op[Main].set.value) =>
              reg # BitOr(prior[Main], op[Main].set.value)

C3_Witness ==
    /\ Completed("set")
    /\ prior[Main] = Preset.link.value
    /\ op[Main].set = TextSet.red
    /\ reg = Word(4)

\* C4: rendering a scoped-print with a single caller leaves the register equal,
\* in all bits, to the register it started from; hence after any sequence of
\* scoped-prints and plain text writes the register equals its value before
\* the sequence.
C4_ScopedPrintRestores ==
    /\ Completed("print") => reg = prior[Main]
    /\ (Completed("print") \/ Completed("text")) => reg = base

C4_Witness ==
    /\ Completed("print")
    /\ Len(out) = 2
    /\ Len(log[Main]) = 5
    /\ \E k \in 1..5 : log[Main][k].call = "set" /\ log[Main][k].val # prior[Main]
    /\ BitAnd(prior[Main], BitNot(op[Main].change.mask)) # {}
    /\ reg = prior[Main]

\* the calls and the stream write of a complete scoped-print of {v, m} and
\* text s from register R
ExpectedPrintLog(R, v, m, s) ==
    LET A == BitOr(BitAnd(R, BitNot(m)), BitAnd(v, m))
    IN  <<GetEvent(R), GetEvent(R), SetEvent(A), TextEvent(A, s), SetEvent(R)>>

\* C5: a scoped-print runs capture, apply, write text, restore in this order:
\* the text reaches the stream after the change has been applied and before
\* the restore, while the register equals (R & ~m) | (v & m), and the restore
\* is the last console write.
C5_ScopedPrintOrder ==
    op[Main].kind = "print" =>
        LET expected == ExpectedPrintLog(prior[Main], op[Main].change.value,
                                         op[Main].change.mask, op[Main].string)
        IN  /\ Len(log[Main]) <= 5
            /\ log[Main] = SubSeq(expected, 1, Len(log[Main]))
            /\ pc[Main] = "idle" => Len(log[Main]) = 5
            /\ pc[Main] = "print_restore" =>
                  /\ Len(log[Main]) = 4
                  /\ out # <<>> /\ out[Len(out)] = op[Main].string
                  /\ reg = expected[3].val

C5_Witness ==
    /\ Completed("print")
    /\ Len(log[Main]) = 5
    /\ log[Main][4].call = "text"
    /\ log[Main][4].val # prior[Main]
    /\ log[Main][5] = SetEvent(prior[Main])

\* C6: a Dye/Mark/Underline helper H with change h applied to an already-built
\* scoped-print value p gives attributes combine_changes(h, p.attributes) and
\* the text of p; Mark::green(Dye::yellow("dyed")) has the change
\* Text::yellow | Background::green and the text "dyed", and rendering it
\* captures and restores the register once.
C6_NestedHelperOneUnit ==
    (op[Main].kind = "print" /\ op[Main].expr.helper[1] # "aggregate"
        /\ op[Main].expr.inner # NoPrint) =>
        LET h == HelperChange(op[Main].expr.helper)
            p == op[Main].expr.inner
        IN  /\ op[Main].change = combine_changes(h, p.attributes)
            /\ op[Main].change.value = h.value \cup p.attributes.value
            /\ op[Main].change.mask = h.mask \cup p.attributes.mask
            /\ op[Main].string = p.string
            /\ (op[Main].expr.helper = <<"Mark", "green">>
                  /\ p = Dye_string("yellow", "dyed")) =>
                  /\ op[Main].change =
                        ConsoleTextAttrChange(Word(6 + 32), Word(15 + 240))
                  /\ op[Main].string = "dyed"
            /\ pc[Main] = "idle" =>
                  /\ Cardinality({k \in 1..Len(log[Main]) :
                                     log[Main][k].call = "text"}) = 1
                  /\ Cardinality({k \in 1..Len(log[Main]) :
                                     log[Main][k].call = "set"}) = 2
                  /\ log[Main][1] = GetEvent(prior[Main])
                  /\ log[Main][Len(log[Main])] = SetEvent(prior[Main])

C6_Witness ==
    /\ Completed("print")
    /\ op[Main].expr.helper = <<"Mark", "green">>
    /\ op[Main].expr.inner = Dye_string("yellow", "dyed")
    /\ op[Main].change = combine_changes(Text.yellow, Background.green)
    /\ out # <<>> /\ out[Len(out)] = "dyed"
    /\ Len(log[Main]) = 5

\* C7: combine_changes(a, b) has mask a.mask | b.mask and value
\* a.value | b.value, bit by bit, for all changes a and b.
C7_CombineChangesComponentwise ==
    alg.op = "combine_changes" =>
        /\ \A i \in Bits : (i \in alg.ab.mask) <=> (i \in alg.a.mask \/ i \in alg.b.mask)
        /\ \A i \in Bits : (i \in alg.ab.value) <=> (i \in alg.a.value \/ i \in alg.b.value)

C7_Witness ==
    /\ alg.op = "combine_changes"
    /\ alg.a = Text.red
    /\ alg.b = Text.blue
    /\ alg.ab = Text.purple

\* C8: combine_sets is commutative, associative and idempotent for all
\* absolute sets a, b, c.
C8_CombineSetsLaws ==
    alg.op = "combine_sets" =>
        /\ alg.ab = alg.ba
        /\ alg.ab_c = alg.a_bc
        /\ alg.aa = alg.a

C8_Witness ==
    /\ alg.op = "combine_sets"
    /\ alg.a = TextSet.blue
    /\ alg.b = BarSet.bottom
    /\ alg.c = BackgroundSet.white
    /\ alg.ab = Preset.link
    /\ alg.ab_c.value = Word(1 + 112 + 32768)

\* the operands a and b of the evaluation name different bits inside the
\* region both masks cover
Conflicting ==
    BitAnd(BitAnd(alg.a.mask, alg.b.mask), alg.a.value)
        # BitAnd(BitAnd(alg.a.mask, alg.b.mask), alg.b.value)

\* C9 as stated: the value of combine_changes commutes only when the masks of
\* the operands do not overlap (operands that commute have disjoint masks).
C9_ValueCommutesOnlyWhenDisjoint ==
    (alg.op = "combine_changes" /\ Conflicting /\ alg.ab.value = alg.ba.value) =>
        BitAnd(alg.a.mask, alg.b.mask) = {}

\* C9 (amended): combine_changes is commutative and associative on the mask
\* component and commutative on the value component for all operands, also
\* when their masks overlap: the overlapping value bits are OR'ed either way.
C9_CombineChangesCommutes ==
    alg.op = "combine_changes" =>
        /\ alg.ab.mask = alg.ba.mask
        /\ alg.ab_c.mask = alg.a_bc.mask
        /\ alg.ab.value = alg.ba.value

C9_Witness ==
    /\ alg.op = "combine_changes"
    /\ BitAnd(alg.a.mask, alg.b.mask) # {}
    /\ Conflicting
    /\ alg.a # alg.b
    /\ alg.ab = alg.ba

\* C10: every named partial change of Text::, Background::, Bar:: and Invert::
\* has no value bit outside its mask, and so has every change composed from
\* them with |, the changes of nested Dye/Mark/Underline helpers included.
C10_MaskedValueDiscipline ==
    /\ \A x \in NamedChanges : BitAnd(x.value, BitNot(x.mask)) = {}
    /\ acc.kind \in {"change", "print"} =>
          BitAnd(acc.attributes.value, BitNot(acc.attributes.mask)) = {}

C10_Witness ==
    /\ acc.kind = "print"
    /\ acc.attributes.mask = Text_mask \cup Background_mask \cup COMMON_LVB_UNDERSCORE
    /\ acc.attributes.value = Word(6 + 32 + 32768)
    /\ acc.string = "dyed"


\* ------------------------------------------------------------------------
\* two callers on the same console
\* ------------------------------------------------------------------------

\* one step of caller t, which writes a single stream insertion
ConcStep(t) ==
    /\ pc[t] = "idle" => op[t].kind = "none"
    /\ Step(t)

\* the steps of the two callers interleave at the host calls
NextConc == \E t \in Callers : ConcStep(t)

SpecConc == Init /\ [][NextConc]_vars

\* the register a partial change c must leave from register P
Applied(P, c) == BitOr(BitAnd(P, BitNot(c.mask)), BitAnd(c.value, c.mask))

\* both callers have completed a change_text_attributes that read the same
\* register
BothChangedFromSameRead ==
    /\ \A t \in Callers : pc[t] = "idle" /\ op[t].kind = "change"
    /\ log["main"][1].val = log["other"][1].val

\* C11: change_text_attributes is a read followed by a write: when two callers
\* both read the register before either writes it, the register ends as one
\* caller's change applied to the value read, the other caller's update is
\* lost, and with disjoint masks and two effective changes the result differs
\* from both serial orders.
C11_LostUpdate ==
    BothChangedFromSameRead =>
        LET V == log["main"][1].val
            a == op["main"].change
            b == op["other"].change
        IN  /\ reg \in {Applied(V, a), Applied(V, b)}
            /\ (BitAnd(a.mask, b.mask) = {} /\ Applied(V, a) # V /\ Applied(V, b) # V) =>
                  /\ reg # Applied(Applied(V, a), b)
                  /\ reg # Applied(Applied(V, b), a)

C11_Witness ==
    /\ BothChangedFromSameRead
    /\ op["main"].change = Text.red
    /\ op["other"].change = Background.white
    /\ log["main"][1].val = Word(7)
    /\ reg = Word(4)
    /\ reg # Applied(Applied(Word(7), Text.red), Background.white)
    /\ reg # Applied(Applied(Word(7), Background.white), Text.red)


\* C12: a partial change {v, 0xFFFFFFFF} leaves the register as directly
\* writing the absolute set {v} leaves it, whatever the register held.
C12_FullMaskIsSet ==
    (Completed("change") /\ op[Main].change.mask = AllBits) =>
        /\ reg = set_text_attributes(ConsoleTextAttr(op[Main].change.value))
        /\ \A i \in Bits : (i \in reg) <=> (i \in op[Main].change.value)

C12_Witness ==
    /\ Completed("change")
    /\ op[Main].change = ConsoleTextAttrChange(Word(165), AllBits)
    /\ ~(prior[Main] \subseteq Word(165))
    /\ reg = Word(165)

\* C13: a partial change {v, 0} leaves the register equal to the register it
\* started from; the value bits are ignored.
C13_EmptyMaskKeepsRegister ==
    (Completed("change") /\ op[Main].change.mask = {}) => reg = prior[Main]

C13_Witness ==
    /\ Completed("change")
    /\ op[Main].change = ConsoleTextAttrChange(Word(165), Word(0))
    /\ ~(Word(165) \subseteq prior[Main])
    /\ Len(log[Main]) = 2
    /\ reg = prior[Main]


\* C14: Preset::Default is the white-on-black reset: written after any
\* sequence of sets, changes and scoped-prints it leaves the register 0x0007,
\* foreground white, background black, the four bars and reverse video off.
C14_DefaultResets ==
    (Completed("set") /\ op[Main].set = Preset.Default) =>
        /\ reg = Word(7)
        /\ BitAnd(reg, Text_mask)
              = FOREGROUND_RED \cup FOREGROUND_GREEN \cup FOREGROUND_BLUE
        /\ BitAnd(reg, Background_mask) = {}
        /\ BitAnd(reg, Bar_all_bits) = {}
        /\ BitAnd(reg, COMMON_LVB_REVERSE_VIDEO) = {}

C14_Witness ==
    /\ Completed("set")
    /\ op[Main].set = Preset.Default
    /\ BitAnd(prior[Main], Background_mask) # {}
    /\ BitAnd(prior[Main], Bar_all_bits) # {}
    /\ BitAnd(prior[Main], COMMON_LVB_REVERSE_VIDEO) # {}
    /\ Len(out) = MaxOut
    /\ reg = Word(7)

\* C15: Preset::link is TextSet::blue | BarSet::bottom and Preset::active_link
\* is TextSet::purple | BarSet::bottom; writing either leaves the register
\* with those foreground bits and the underscore bit and no other bit.
C15_LinkPresets ==
    /\ Preset.link = combine_sets(TextSet.blue, BarSet.bottom)
    /\ Preset.active_link = combine_sets(TextSet.purple, BarSet.bottom)
    /\ (Completed("set") /\ op[Main].set = Preset.link) =>
          reg = FOREGROUND_BLUE \cup COMMON_LVB_UNDERSCORE
    /\ (Completed("set") /\ op[Main].set = Preset.active_link) =>
          reg = FOREGROUND_RED \cup FOREGROUND_BLUE \cup COMMON_LVB_UNDERSCORE

C15_Witness ==
    /\ Completed("set")
    /\ op[Main].set = Preset.active_link
    /\ prior[Main] = Word(116)
    /\ reg = Word(5 + 32768)


\* ------------------------------------------------------------------------
\* look-ups in the colour tables
\* ------------------------------------------------------------------------

\* two colour names are drawn
InitPalette ==
    /\ ConsoleInit
    /\ \E c, d \in Colours : alg = [op |-> "names", c |-> c, d |-> d]
    /\ acc = [kind |-> "none"]

\* Text::c, Text::d, Background::c and, where namespace TextSet declares it,
\* TextSet::c
LookUp ==
    /\ alg.op = "names"
    /\ alg' = [op |-> "palette", c |-> alg.c, d |-> alg.d,
               text_c |-> Text[alg.c],
               text_d |-> Text[alg.d],
               background_c |-> Background[alg.c],
               in_text_set |-> alg.c \in DOMAIN TextSet,
               text_set_c |-> IF alg.c \in DOMAIN TextSet THEN TextSet[alg.c]
                              ELSE NoAttr]
    /\ UNCHANGED <<console_vars, acc>>

NextPalette == LookUp

SpecPalette == InitPalette /\ [][NextPalette]_vars

\* x << n
ShiftedLeft(x, n) == {i + n : i \in x} \cap Bits

\* C16: each of the 16 Text:: constants has mask 0x000F and a value within
\* 0x000F, the 16 values are pairwise distinct and cover 0x0..0xF; each
\* Background:: constant has mask 0x00F0 and the value of the Text:: constant
\* of the same name shifted left by four bits.
C16_PaletteLayout ==
    /\ Cardinality(Colours) = 16
    /\ DOMAIN Background = Colours
    /\ {Text[c].value : c \in Colours} = {Word(n) : n \in 0..15}
    /\ alg.op = "palette" =>
          /\ alg.text_c.mask = Word(15)
          /\ alg.text_c.value \subseteq Word(15)
          /\ alg.c # alg.d => alg.text_c.value # alg.text_d.value
          /\ alg.background_c.mask = Word(240)
          /\ alg.background_c.value = ShiftedLeft(alg.text_c.value, 4)

C16_Witness ==
    /\ alg.op = "palette"
    /\ alg.c = "light_aqua"
    /\ alg.d = "aqua"
    /\ alg.text_c = ConsoleTextAttrChange(Word(11), Word(15))
    /\ alg.text_d = ConsoleTextAttrChange(Word(3), Word(15))
    /\ alg.background_c = ConsoleTextAttrChange(Word(176), Word(240))

\* C17 as stated: for every colour name c of Text, black included, there is a
\* TextSet constant c with the value of Text::c.
C17_TextSetHasEveryColour ==
    alg.op = "palette" =>
        /\ alg.in_text_set
        /\ alg.text_set_c.value = alg.text_c.value

\* C17 (amended): for every colour name c of Text other than black there is a
\* TextSet constant c with the value of Text::c; namespace TextSet declares
\* no black.
C17_TextSetHasEveryColourButBlack ==
    /\ DOMAIN TextSet = Colours \ {"black"}
    /\ alg.op = "palette" =>
          /\ alg.in_text_set <=> alg.c # "black"
          /\ alg.in_text_set => alg.text_set_c.value = alg.text_c.value

C17_Witness ==
    /\ alg.op = "palette"
    /\ alg.c = "light_purple"
    /\ alg.d = "black"
    /\ alg.in_text_set
    /\ alg.text_set_c = ConsoleTextAttr(Word(13))


\* ------------------------------------------------------------------------
\* one named partial change applied to the console
\* ------------------------------------------------------------------------

\* the caller writes one of the named partial changes, once
NextNamed ==
    /\ \/ \E attr \in NamedChanges :
             /\ op[Main].kind = "none"
             /\ InsertChange(Main, attr)
       \/ ChangeSet(Main)
    /\ UNCHANGED chain

SpecNamed == Init /\ [][NextNamed]_vars

\* the bar toggles: the name that switches a bar on and the one that
\* switches it off
BarToggles ==
    {<<"top", "top_off">>, <<"bottom", "bottom_off">>,
     <<"left", "left_off">>, <<"right", "right_off">>}

\* C18: Bar::top, bottom, left and right each have value = mask = one bit,
\* the four bits differ, the matching _off constant has value 0 and the same
\* mask, so applying one of them changes that bar's bit only; Bar::all and
\* Bar::all_off are the | of the four on-changes and of the four off-changes.
C18_BarToggles ==
    /\ \A p \in BarToggles :
          /\ Bar[p[1]].value = Bar[p[1]].mask
          /\ Cardinality(Bar[p[1]].mask) = 1
          /\ Bar[p[2]] = ConsoleTextAttrChange({}, Bar[p[1]].mask)
          /\ \A q \in BarToggles : q # p => Bar[q[1]].mask # Bar[p[1]].mask
    /\ Bar.all = combine_changes(combine_changes(Bar.top, Bar.bottom),
                                 combine_changes(Bar.left, Bar.right))
    /\ Bar.all_off = combine_changes(combine_changes(Bar.top_off, Bar.bottom_off),
                                     combine_changes(Bar.left_off, Bar.right_off))
    /\ \A p \in BarToggles :
          (Completed("change") /\ op[Main].change \in {Bar[p[1]], Bar[p[2]]}) =>
              /\ \A i \in Bits \ Bar[p[1]].mask : (i \in reg) <=> (i \in prior[Main])
              /\ op[Main].change = Bar[p[1]] => Bar[p[1]].mask \subseteq reg
              /\ op[Main].change = Bar[p[2]] => BitAnd(reg, Bar[p[1]].mask) = {}

C18_Witness ==
    /\ Completed("change")
    /\ op[Main].change = Bar.top_off
    /\ prior[Main] = Word(50311)
    /\ reg = Word(50311 - 1024)


\* C19: inserting an absolute set or a partial change performs the console
\* call and writes nothing to the stream; a scoped-print writes its text once,
\* between its apply and its restore; so the stream receives the plain text
\* pieces and the scoped-print texts, each appended in the order of insertion.
C19_StreamReceivesTexts ==
    /\ [](Completed("print") =>
            /\ {k \in 1..Len(log[Main]) : log[Main][k].call = "text"} = {4}
            /\ log[Main][4].str = op[Main].string
            /\ out # <<>> /\ out[Len(out)] = op[Main].string)
    /\ [][/\ out' # out =>
               \/ /\ pc[Main] = "idle"
                  /\ op'[Main].kind = "text"
                  /\ out' = Append(out, op'[Main].string)
               \/ /\ pc[Main] = "print_string"
                  /\ out' = Append(out, op[Main].string)
          /\ (pc[Main] = "idle" /\ op'[Main].kind = "set") =>
                out' = out /\ reg' = op'[Main].set.value
          /\ (pc[Main] = "change_set" /\ pc'[Main] = "idle") =>
                out' = out /\ op'[Main].kind = "change"
          /\ (pc[Main] = "idle" /\ op'[Main].kind = "text") =>
                out' = Append(out, op'[Main].string) /\ reg' = reg
         ]_vars

C19_Witness ==
    /\ Completed("print")
    /\ op[Main].string = "dyed"
    /\ out = <<"X", "dyed">>
    /\ Len(log[Main]) = 5


\* ------------------------------------------------------------------------
\* host calls that report failure
\* ------------------------------------------------------------------------

\* what `i.wAttributes` may hold when GetConsoleScreenBufferInfo has failed and
\* left the local CONSOLE_SCREEN_BUFFER_INFO i uninitialized
Garbage == {Word(0), Word(52428)}

\* a host call that returned failure; the status is not looked at
FailedGetEvent(v) == [call |-> "get", val |-> v, str |-> "failed"]
FailedSetEvent(v) == [call |-> "set", val |-> v, str |-> "failed"]

\* stream << ConsoleTextAttr when SetConsoleTextAttribute fails: the register
\* keeps its value
InsertSetFailed(t, attr) ==
    /\ pc[t] = "idle"
    /\ op' = [op EXCEPT ![t] = [NoOp EXCEPT !.kind = "set", !.set = attr]]
    /\ prior' = [prior EXCEPT ![t] = reg]
    /\ log' = [log EXCEPT ![t] = <<FailedSetEvent(attr.value)>>]
    /\ UNCHANGED <<reg, out, pc, attributes, saved, base, alg, acc>>

\* change_text_attributes that returns when its read of the console fails
InsertChangeFailed_return(t, attr, g) ==
    /\ pc[t] = "idle"
    /\ op' = [op EXCEPT ![t] = [NoOp EXCEPT !.kind = "change", !.change = attr]]
    /\ prior' = [prior EXCEPT ![t] = reg]
    /\ log' = [log EXCEPT ![t] = <<FailedGetEvent(g)>>]
    /\ UNCHANGED <<reg, out, pc, attributes, saved, base, alg, acc>>

\* stream << ConsoleTextAttrChange when GetConsoleScreenBufferInfo fails:
\* change_text_attributes goes on with the value g found in the local
InsertChangeFailed(t, attr, g) ==
    /\ pc[t] = "idle"
    /\ op' = [op EXCEPT ![t] = [NoOp EXCEPT !.kind = "change", !.change = attr]]
    /\ prior' = [prior EXCEPT ![t] = reg]
    /\ attributes' = [attributes EXCEPT ![t] = ConsoleTextAttr(g)]
    /\ log' = [log EXCEPT ![t] = <<FailedGetEvent(g)>>]
    /\ pc' = [pc EXCEPT ![t] = "change_set"]
    /\ UNCHANGED <<reg, out, saved, base, alg, acc>>

\* the write of change_text_attributes when SetConsoleTextAttribute fails
ChangeSetFailed(t) ==
    /\ pc[t] \in {"change_set", "print_change_set"}
    /\ log' = [log EXCEPT ![t] = Append(@, FailedSetEvent(
                 change_text_attributes_value(attributes[t], op[t].change).value))]
    /\ attributes' = [attributes EXCEPT ![t] = NoAttr]
    /\ pc' = [pc EXCEPT ![t] = IF pc[t] = "change_set" THEN "idle"
                                ELSE AfterInPrint("print_change")]
    /\ UNCHANGED <<reg, out, op, saved, prior, base, alg, acc>>

\* stream << ConsoleTextAttrChangePrint when the capturing
\* GetConsoleScreenBufferInfo fails
InsertPrintFailed(t, e, g) ==
    /\ pc[t] = "idle"
    /\ Len(out) < MaxOut
    /\ op' = [op EXCEPT ![t] = [NoOp EXCEPT !.kind = "print",
                                            !.change = Build(e).attributes,
                                            !.string = Build(e).string,
                                            !.expr = e]]
    /\ prior' = [prior EXCEPT ![t] = reg]
    /\ saved' = [saved EXCEPT ![t] = ConsoleTextAttr(g)]
    /\ log' = [log EXCEPT ![t] = <<FailedGetEvent(g)>>]
    /\ pc' = [pc EXCEPT ![t] = AfterInPrint("capture")]
    /\ UNCHANGED <<reg, out, attributes, base, alg, acc>>

\* the read of change_text_attributes inside the scoped-print when
\* GetConsoleScreenBufferInfo fails
PrintChangeFailed(t, g) ==
    /\ pc[t] = "print_change"
    /\ attributes' = [attributes EXCEPT ![t] = ConsoleTextAttr(g)]
    /\ log' = [log EXCEPT ![t] = Append(@, FailedGetEvent(g))]
    /\ pc' = [pc EXCEPT ![t] = "print_change_set"]
    /\ UNCHANGED <<reg, out, op, saved, prior, base, alg, acc>>

\* the restoring write of the scoped-print when SetConsoleTextAttribute fails
PrintRestoreFailed(t) ==
    /\ pc[t] = "print_restore"
    /\ log' = [log EXCEPT ![t] = Append(@, FailedSetEvent(saved[t].value))]
    /\ saved' = [saved EXCEPT ![t] = NoAttr]
    /\ pc' = [pc EXCEPT ![t] = AfterInPrint("print_restore")]
    /\ UNCHANGED <<reg, out, op, attributes, prior, base, alg, acc>>

\* one step of caller t in which the host call fails
FailedStep(t) ==
    /\ \/ \E attr \in SetInputs : InsertSetFailed(t, attr)
       \/ \E attr \in ChangeInputs, g \in Garbage : InsertChangeFailed(t, attr, g)
       \/ ChangeSetFailed(t)
       \/ \E e \in PrintInputs, g \in Garbage : InsertPrintFailed(t, e, g)
       \/ \E g \in Garbage : PrintChangeFailed(t, g)
       \/ PrintRestoreFailed(t)
    /\ UNCHANGED chain

\* the caller writes one stream insertion; each host call succeeds or fails
NextFail ==
    /\ pc[Main] = "idle" => op[Main].kind = "none"
    /\ Step(Main) \/ FailedStep(Main)

SpecFail == Init /\ [][NextFail]_vars

\* the kinds of the calls recorded in l, in order
Calls(l) == [k \in 1..Len(l) |-> l[k].call]

\* C20: no operation has an error outcome: whether or not a host call reports
\* failure, change_text_attributes issues its read and then its write, a
\* scoped-print issues capture, the read and the write of the apply, the text
\* write and the restoring write, and both return to the caller.
C20_NoErrorOutcome ==
    /\ pc[Main] \in {"idle", "change_set", "print_change", "print_change_set",
                     "print_string", "print_restore"}
    /\ pc[Main] # "idle" => ENABLED NextFail
    /\ op[Main].kind = "set" => Calls(log[Main]) = <<"set">>
    /\ op[Main].kind = "change" =>
          /\ Calls(log[Main]) = SubSeq(<<"get", "set">>, 1, Len(log[Main]))
          /\ pc[Main] = "idle" => Len(log[Main]) = 2
    /\ op[Main].kind = "print" =>
          /\ Calls(log[Main])
                = SubSeq(<<"get", "get", "set", "text", "set">>, 1, Len(log[Main]))
          /\ pc[Main] = "idle" =>
                /\ Len(log[Main]) = 5
                /\ out = <<op[Main].string>>

C20_Witness ==
    /\ Completed("print")
    /\ Len(log[Main]) = 5
    /\ log[Main][1].str = "failed"
    /\ log[Main][2].str = "failed"
    /\ log[Main][3].str = "failed"
    /\ log[Main][5].str = "failed"
    /\ out = <<op[Main].string>>


\* ------------------------------------------------------------------------
\* chains of partial changes written one after another
\* ------------------------------------------------------------------------

\* the longest chain of `<<` the caller writes
MaxChain == 3

\* std::cout << change, as one more link of the chain: change_text_attributes
\* up to its read of the console
ChainInsert(attr) ==
    /\ Len(chain.changes) < MaxChain
    /\ InsertChange(Main, attr)
    /\ UNCHANGED chain

\* the write of change_text_attributes, which ends the link
ChainSet ==
    /\ ChangeSet(Main)
    /\ chain' = [chain EXCEPT !.changes = Append(@, op[Main].change)]

\* a single caller writes std::cout << c1 << c2 << ...
NextChain ==
    \/ \E attr \in ChangeInputs : ChainInsert(attr)
    \/ ChainSet

SpecChain == Init /\ [][NextChain]_vars

\* the fields of the attribute word the named changes address
Fields ==
    {Text_mask, Background_mask, COMMON_LVB_GRID_HORIZONTAL, COMMON_LVB_GRID_LVERTICAL,
     COMMON_LVB_GRID_RVERTICAL, COMMON_LVB_UNDERSCORE, COMMON_LVB_REVERSE_VIDEO}

\* the positions of the changes in l whose mask covers field F
Covering(l, F) == {k \in 1..Len(l) : F \subseteq l[k].mask}

Latest(S) == CHOOSE k \in S : \A j \in S : j <= k

\* C21: after any chain of named partial changes applied one after another by
\* a single caller, each field of the register holds the value of the most
\* recent change whose mask covers the field, or the bits the register had
\* before the chain if no change covered it.
C21_LastAppliedWinsPerField ==
    (\A k \in 1..Len(chain.changes) : chain.changes[k] \in NamedChanges) =>
        \A F \in Fields :
            LET S == Covering(chain.changes, F)
            IN  BitAnd(reg, F) = IF S = {} THEN BitAnd(chain.from, F)
                                 ELSE BitAnd(chain.changes[Latest(S)].value, F)

C21_Witness ==
    /\ pc[Main] = "idle"
    /\ chain.from = Word(116)
    /\ chain.changes = <<Text.red, Background.white, Text.blue>>
    /\ BitAnd(reg, Text_mask) = Text.blue.value
    /\ BitAnd(reg, Background_mask) = Background.white.value


\* ------------------------------------------------------------------------
\* two colours of the same field composed into one insertion
\* ------------------------------------------------------------------------

\* std::cout << (Text::x | Text::y), for every pair of colours
OverlapChanges == {combine_changes(Text[x], Text[y]) : x, y \in Colours}

\* std::cout << Dye::x(Dye::y("X")), for every pair of colours
OverlapPrints ==
    {[helper |-> <<"Dye", x>>, inner |-> Dye_string(y, "X"), string |-> ""] :
        x, y \in Colours}

\* the caller writes one such insertion
NextOverlap ==
    /\ pc[Main] = "idle" => op[Main].kind = "none"
    /\ \/ \E attr \in OverlapChanges : InsertChange(Main, attr)
       \/ ChangeSet(Main)
       \/ \E e \in OverlapPrints : InsertPrint(Main, e)
       \/ PrintChange(Main)
       \/ PrintString(Main)
       \/ PrintRestore(Main)
    /\ UNCHANGED chain

SpecOverlap == Init /\ [][NextOverlap]_vars

\* the foreground the console shows for the text of the scoped-print in l
RenderedForeground(l) ==
    {BitAnd(l[k].val, Text_mask) : k \in {j \in 1..Len(l) : l[j].call = "text"}}

\* C22: composing changes whose masks overlap ORs their value bits instead of
\* letting the later operand win: Text::red | Text::blue is Text::purple
\* (value 5, mask 15) and applying it leaves a purple foreground, neither red
\* nor blue; Dye::x(Dye::y(text)) renders the text with foreground
\* Text::x.value | Text::y.value.
C22_OverlapOrsValues ==
    /\ Completed("change") =>
          /\ \A x, y \in Colours :
                op[Main].change = combine_changes(Text[x], Text[y]) =>
                   /\ op[Main].change.mask = Text_mask
                   /\ BitAnd(reg, Text_mask) = BitOr(Text[x].value, Text[y].value)
          /\ op[Main].change = combine_changes(Text.red, Text.blue) =>
                /\ op[Main].change = Text.purple
                /\ op[Main].change = ConsoleTextAttrChange(Word(5), Word(15))
                /\ BitAnd(reg, Text_mask) = Text.purple.value
                /\ BitAnd(reg, Text_mask) \notin {Text.red.value, Text.blue.value}
    /\ op[Main].kind = "print" =>
          \A x, y \in Colours :
             op[Main].expr = [helper |-> <<"Dye", x>>, inner |-> Dye_string(y, "X"),
                              string |-> ""] =>
                /\ RenderedForeground(log[Main])
                      \subseteq {BitOr(Text[x].value, Text[y].value)}
                /\ pc[Main] = "idle" => RenderedForeground(log[Main]) # {}

C22_Witness ==
    /\ Completed("print")
    /\ op[Main].expr = [helper |-> <<"Dye", "red">>, inner |-> Dye_string("blue", "X"),
                        string |-> ""]
    /\ RenderedForeground(log[Main]) = {Text.purple.value}
    /\ out = <<"X">>


\* the register after one application of change c to register P
AppliedOnce(P, c) ==
    set_text_attributes(change_text_attributes_value(ConsoleTextAttr(P), c))

Disciplined(c) == BitAnd(c.value, BitNot(c.mask)) = {}

\* C23: composing with | agrees with chaining with << when masks are
\* disjoint: for every prior register P and all changes a, b with disjoint
\* masks and value & ~mask == 0, a then b leaves the register that one
\* application of a | b leaves, which is also what one application of b | a
\* leaves (so b then a agrees as well); likewise for three changes.
C23_ComposeAgreesWithChain ==
    LET l == chain.changes
        P == chain.from
    IN  /\ (/\ Len(l) = 2
            /\ Disciplined(l[1]) /\ Disciplined(l[2])
            /\ BitAnd(l[1].mask, l[2].mask) = {}) =>
               /\ reg = AppliedOnce(P, combine_changes(l[1], l[2]))
               /\ reg = AppliedOnce(P, combine_changes(l[2], l[1]))
               /\ reg = AppliedOnce(AppliedOnce(P, l[2]), l[1])
        /\ (/\ Len(l) = 3
            /\ \A k \in 1..3 : Disciplined(l[k])
            /\ \A j, k \in 1..3 : j # k => BitAnd(l[j].mask, l[k].mask) = {}) =>
               reg = AppliedOnce(P, combine_changes(combine_changes(l[1], l[2]), l[3]))

C23_Witness ==
    /\ pc[Main] = "idle"
    /\ chain.from = Word(50311)
    /\ chain.changes = <<Text.blue, Background.white, Bar.bottom>>
    /\ reg = AppliedOnce(Word(50311),
                 combine_changes(combine_changes(Text.blue, Background.white), Bar.bottom))
    /\ reg # Word(50311)


\* ------------------------------------------------------------------------
\* a scoped-print interleaved with another writer
\* ------------------------------------------------------------------------

\* caller t has completed a scoped-print whose apply step read a register
\* other than the one captured, and the other caller u has completed the
\* absolute set or partial change that wrote it
WrittenBetweenCaptureAndRead(t, u) ==
    /\ t # u
    /\ pc[t] = "idle" /\ op[t].kind = "print"
    /\ pc[u] = "idle" /\ op[u].kind \in {"set", "change"}
    /\ log[t][2].val # log[t][1].val

\* C24: the scoped-print is not atomic: its restore writes the captured value
\* R over whatever the register holds, so a modification another writer made
\* between capture and restore is lost; and when the other writer's
\* modification lands between the capture and the apply step's own read, the
\* text is rendered under the other writer's bits outside the mask and the
\* register still ends as R.
C24_ScopedPrintNotAtomic ==
    /\ [](\A t, u \in Callers :
            WrittenBetweenCaptureAndRead(t, u) =>
               LET R == log[t][1].val
                   W == log[u][Len(log[u])].val
                   rendered == log[t][4].val
                   outside == BitNot(op[t].change.mask)
               IN  /\ log[t][2].val = W
                   /\ rendered = Applied(W, op[t].change)
                   /\ BitAnd(rendered, outside) = BitAnd(W, outside)
                   /\ reg = R
                   /\ reg # W)
    /\ [][\A t \in Callers :
             (pc[t] = "print_restore" /\ pc'[t] = "idle") => reg' = log[t][1].val]_vars

C24_Witness ==
    /\ WrittenBetweenCaptureAndRead("main", "other")
    /\ op["main"].expr = [helper |-> <<"Dye", "yellow">>, inner |-> NoPrint,
                          string |-> "dyed"]
    /\ op["other"].change = Background.white
    /\ log["main"][1].val = Word(7)
    /\ log["other"][2].val = Word(119)
    /\ log["main"][4].val = Word(118)
    /\ reg = Word(7)


\* C25: applying a change is idempotent: for every prior register P and every
\* change c, a single caller applying c twice in succession leaves the register
\* that applying c once leaves; likewise c | c is c.
C25_ApplyIdempotent ==
    /\ [](LET l == chain.changes
          IN  /\ (Len(l) = 2 /\ l[1] = l[2]) => reg = AppliedOnce(chain.from, l[1])
              /\ \A k \in 1..Len(l) : combine_changes(l[k], l[k]) = l[k])
    /\ [][(/\ chain.changes # <<>>
           /\ chain.changes' = Append(chain.changes, chain.changes[Len(chain.changes)]))
             => reg' = reg]_vars

C25_Witness ==
    /\ pc[Main] = "idle"
    /\ chain.from = Word(116)
    /\ chain.changes = <<ConsoleTextAttrChange(Word(255), Word(15)),
                         ConsoleTextAttrChange(Word(255), Word(15))>>
    /\ reg = Word(127)

====
